---- MODULE Spec2Model ----
(***************************************************************************)
(* Model of infra/query.py (class Query) and of MongoRepository.query of   *)
(* infra/mongo.py: the condition translator, the filter accumulator of a   *)
(* Query, the composition calls that fold conditions into it and the       *)
(* execution calls that hand a copy of it to the pymongo collection.       *)
(***************************************************************************)
EXTENDS Integers, Sequences, FiniteSets, TLC

VARIABLES heap, __filter, sent, hist

vars == <<heap, __filter, sent, hist>>

(***************************************************************************)
(* Python values.  Every value carries its type tag, the payload sits in a *)
(* field named after the type.  A dict or list that the accumulator holds  *)
(* directly is an object of the heap and is named by a reference.          *)
(***************************************************************************)
PyNone == [t |-> "None"]

PyInt(n) == [t |-> "int", n |-> n]

PyBool(b) == [t |-> "bool", b |-> b]

PyStr(s) == [t |-> "str", s |-> s]

PyList(s) == [t |-> "list", l |-> s]

PyDict(f) == [t |-> "dict", d |-> f]

Ref(a) == [t |-> "ref", a |-> a]

EmptyMap == [k \in {} |-> PyNone]

\* dict.update: the keys of g are set in f, the other keys of f stay
update(f, g) == [k \in (DOMAIN f) \cup (DOMAIN g) |-> IF k \in DOMAIN g THEN g[k] ELSE f[k]]

\* a (field, operator, value) triple
Cond(f, o, v) == [field |-> f, operator |-> o, value |-> v]

\* the outcome of a call: the value returned or the exception raised, and
\* the number of logging.error calls it made
Ret(v, n) == [exc |-> "none", val |-> v, logged |-> n]

Raise(e, n) == [exc |-> e, val |-> PyNone, logged |-> n]

(***************************************************************************)
(* method_parser and array_contains_filter_parser                          *)
(***************************************************************************)
conditions_available ==
    {"==", "!=", ">", ">=", "<", "<=", "in", "in_range", "like", "ilike",
     "has_field", "as_type", "array_contains"}

\* checker(type_, to_validate, successful): successful, or logging.error(...)
\* whose result is PyNone
checker(type_, to_validate, successful) ==
    IF to_validate.t = type_ THEN Ret(successful, 0) ELSE Ret(PyNone, 1)

\* in_range with the bounds excluded
in_range_strict(x) ==
    IF x.t # "dict" THEN Raise("TypeError", 0)
    ELSE IF ~({"min", "max"} \subseteq DOMAIN x.d) THEN Raise("KeyError", 0)
    ELSE checker("dict", x, PyDict(("$gt" :> x.d["min"]) @@ ("$lt" :> x.d["max"])))

\* the lambda of "in_range": its argument {"$gte": x["min"], "$lte": x["max"]}
\* is evaluated before checker is called; subscripting a value that is no
\* dict with a string raises TypeError, a missing key raises KeyError
in_range(x) ==
    IF x.t # "dict" THEN Raise("TypeError", 0)
    ELSE IF ~({"min", "max"} \subseteq DOMAIN x.d) THEN Raise("KeyError", 0)
    ELSE checker("dict", x, PyDict(("$gte" :> x.d["min"]) @@ ("$lte" :> x.d["max"])))

has_field(flag) == checker("bool", flag, PyDict("$exists" :> flag))

\* the statement of the loops of parse_filters and array_contains_filter_parser
\* that merges the condition r = method_parser(...) of a field already in
\* parsed: parsed.get(field).update(**new_condition)
merge_into(parsed, field, r, logged) ==
    IF r.exc # "none" THEN [exc |-> r.exc, val |-> parsed, logged |-> logged + r.logged]
    ELSE IF parsed[field].t # "dict"
         THEN [exc |-> "AttributeError", val |-> parsed, logged |-> logged + r.logged]
    ELSE IF r.val.t # "dict"
         THEN [exc |-> "TypeError", val |-> parsed, logged |-> logged + r.logged]
    ELSE [exc |-> "none",
          val |-> [parsed EXCEPT ![field] = PyDict(update(parsed[field].d, r.val.d))],
          logged |-> logged + r.logged]

\* the else branch: parsed.update({field: method_parser(...)})
set_field(parsed, field, r, logged) ==
    IF r.exc # "none" THEN [exc |-> r.exc, val |-> parsed, logged |-> logged + r.logged]
    ELSE [exc |-> "none", val |-> update(parsed, field :> r.val), logged |-> logged + r.logged]

\* a list whose elements unpack into (field, operator, value)
IsCondList(v) == v.t = "list" /\ \A i \in 1..Len(v.l) : "field" \in DOMAIN v.l[i]

RECURSIVE method_parser(_, _, _)
RECURSIVE array_contains_loop(_, _, _, _)

array_contains_loop(conditions, i, parsed_filter, logged) ==
    IF i > Len(conditions) THEN Ret(PyDict("$elemMatch" :> PyDict(parsed_filter)), logged)
    ELSE LET c == conditions[i]
             r == method_parser(c.field, c.operator, c.value)
             s == IF c.field \in DOMAIN parsed_filter
                  THEN merge_into(parsed_filter, c.field, r, logged)
                  ELSE set_field(parsed_filter, c.field, r, logged)
         IN IF s.exc # "none" THEN Raise(s.exc, s.logged)
            ELSE array_contains_loop(conditions, i + 1, s.val, s.logged)

array_contains_filter_parser(field, conditions) ==
    IF ~IsCondList(conditions) THEN Raise("TypeError", 0)
    ELSE array_contains_loop(conditions.l, 1, EmptyMap, 0)

method_parser(field, operator, value) ==
    IF operator \notin conditions_available THEN Ret(PyNone, 1)
    ELSE CASE operator = "==" -> Ret(value, 0)
           [] operator = "!=" -> Ret(PyDict("$ne" :> value), 0)
           [] operator = ">" -> Ret(PyDict("$gt" :> value), 0)
           [] operator = ">=" -> Ret(PyDict("$gte" :> value), 0)
           [] operator = "<" -> Ret(PyDict("$lt" :> value), 0)
           [] operator = "<=" -> Ret(PyDict("$lte" :> value), 0)
           [] operator = "in" -> Ret(PyDict("$in" :> value), 0)
           [] operator = "in_range" -> in_range(value)
           [] operator = "like" -> Ret(PyDict("$regex" :> value), 0)
           [] operator = "ilike" -> Ret(PyDict(("$regex" :> value) @@ ("$options" :> PyStr("i"))), 0)
           [] operator = "has_field" -> has_field(value)
           [] operator = "as_type" -> Ret(PyDict("$type" :> value), 0)
           [] operator = "array_contains" -> array_contains_filter_parser(field, value)

(***************************************************************************)
(* parse_filters                                                           *)
(***************************************************************************)
RECURSIVE parse_filters_loop(_, _, _, _)

parse_filters_loop(filters, i, new_filter, logged) ==
    IF i > Len(filters) THEN Ret(PyDict(new_filter), logged)
    ELSE LET c == filters[i]
             r == method_parser(c.field, c.operator, c.value)
             s == IF c.field \in DOMAIN new_filter
                  THEN merge_into(new_filter, c.field, r, logged)
                  ELSE set_field(new_filter, c.field, r, logged)
         IN IF s.exc # "none" THEN Raise(s.exc, s.logged)
            ELSE parse_filters_loop(filters, i + 1, s.val, s.logged)

parse_filters(filters) == parse_filters_loop(filters, 1, EmptyMap, 0)

(***************************************************************************)
(* The heap.  heap[a] is the dict or list at address a.  The accumulator   *)
(* of a Query (self.__filter) is the address of a dict whose dict and list *)
(* values are references to other objects of the heap; what those objects  *)
(* hold is held by value.  Objects are never freed.                        *)
(***************************************************************************)
Builders == {1, 2}

\* the most calls made on the builders of one run
MaxCalls == 3

\* the longest condition list passed to the composition call of SpecT
MaxLen == 2

\* the most filter documents the collection changes in one run
MaxMutations == 1

Alloc(h, obj) == [heap |-> Append(h, obj), ref |-> Len(h) + 1]

IsObject(v) == v.t \in {"dict", "list"}

RECURSIVE KeysSeq(_)
\* the elements of a finite set, one after the other
KeysSeq(S) == IF S = {} THEN <<>> ELSE LET k == CHOOSE x \in S : TRUE IN <<k>> \o KeysSeq(S \ {k})

\* the value of the dict at address a, references followed
Deref(h, a) ==
    PyDict([k \in DOMAIN h[a].d |-> IF h[a].d[k].t = "ref" THEN h[h[a].d[k].a] ELSE h[a].d[k]])

\* the addresses of the dict at a and of the objects it refers to
Reach(h, a) == {a} \cup {h[a].d[k].a : k \in {x \in DOMAIN h[a].d : h[a].d[x].t = "ref"}}

RECURSIVE dict_update_merge(_, _, _, _)
\* dict_update that merges a dict into the dict the key holds already
dict_update_merge(h, a, d, ks) ==
    IF ks = <<>> THEN h
    ELSE LET k == Head(ks)
             n == Alloc(h, d[k])
             old == IF k \in DOMAIN h[a].d THEN h[a].d[k] ELSE PyNone
         IN IF old.t = "ref" /\ h[old.a].t = "dict" /\ d[k].t = "dict"
            THEN dict_update_merge([h EXCEPT ![old.a] = PyDict(update(@.d, d[k].d))], a, d, Tail(ks))
            ELSE IF IsObject(d[k])
            THEN dict_update_merge([n.heap EXCEPT ![a] = PyDict(update(h[a].d, k :> Ref(n.ref)))],
                                   a, d, Tail(ks))
            ELSE dict_update_merge([h EXCEPT ![a] = PyDict(update(h[a].d, k :> d[k]))],
                                   a, d, Tail(ks))

RECURSIVE dict_update(_, _, _, _)
\* self.__filter.update(d) on the dict at address a, for the keys ks of d in
\* turn: the slot of each key is bound to the value of d, an object of its own
dict_update(h, a, d, ks) ==
    IF ks = <<>> THEN h
    ELSE LET k == Head(ks)
             n == Alloc(h, d[k])
         IN IF IsObject(d[k])
            THEN dict_update([n.heap EXCEPT ![a] = PyDict(update(h[a].d, k :> Ref(n.ref)))],
                             a, d, Tail(ks))
            ELSE dict_update([h EXCEPT ![a] = PyDict(update(h[a].d, k :> d[k]))], a, d, Tail(ks))

\* Query.__init__ that leaves __filter to one dict of the class
Query__init__shared(h) == IF h = <<>> THEN Alloc(h, PyDict(EmptyMap)) ELSE [heap |-> h, ref |-> 1]

\* Query.__init__: self.__filter = dict()
Query__init__(h) == Alloc(h, PyDict(EmptyMap))

\* copy.copy(self.__filter): a new dict holding the same objects
shallowcopy(h, a) == Alloc(h, h[a])

\* copy.deepcopy(self.__filter): a new dict whose object values are new objects
deepcopy(h, a) ==
    LET ks == KeysSeq({k \in DOMAIN h[a].d : h[a].d[k].t = "ref"})
        top == Len(h) + 1
        pos(k) == CHOOSE i \in 1..Len(ks) : ks[i] = k
        newtop == PyDict([k \in DOMAIN h[a].d |->
                          IF h[a].d[k].t = "ref" THEN Ref(top + pos(k)) ELSE h[a].d[k]])
    IN [heap |-> h \o <<newtop>> \o [i \in 1..Len(ks) |-> h[h[a].d[ks[i]].a]], ref |-> top]

\* Query._get_filter (the warning it logs when verbose changes no state)
_get_filter(h, a) == deepcopy(h, a)

\* what the collection is handed by one call of a pymongo method
Submission(b, method, c) ==
    [b |-> b, method |-> method, ref |-> c.ref, doc |-> Deref(c.heap, c.ref), mutated |-> FALSE]

\* the record of one call on a builder: the conditions or the id passed, the
\* exception raised ("none" when it returned), the errors logged, the index
\* in sent of the filter it submitted (0: none) and the accumulator's value
\* after it
Call(op, conds, id, exc, logged, n, after) ==
    [op |-> op, conds |-> conds, id |-> id, exc |-> exc, logged |-> logged, n |-> n,
     after |-> after]

TotalCalls == Len(hist[1]) + Len(hist[2])

\* MongoRepository.query: Query(self._database, collection, verbose=verbose)
query(h) == Query__init__(h)

\* two builders made by repository.query(collection), no call made yet
Init == LET q1 == query(<<>>)
            q2 == query(q1.heap)
        IN /\ heap = q2.heap
           /\ __filter = (1 :> q1.ref) @@ (2 :> q2.ref)
           /\ sent = <<>>
           /\ hist = [b \in Builders |-> <<>>]

\* Query.search
search(b, conditions) ==
    /\ TotalCalls < MaxCalls
    /\ LET r == parse_filters(conditions)
           h == IF r.exc = "none"
                THEN dict_update(heap, __filter[b], r.val.d, KeysSeq(DOMAIN r.val.d))
                ELSE heap
       IN /\ heap' = h
          /\ hist' = [hist EXCEPT ![b] =
                        Append(@, Call("search", conditions, PyNone, r.exc, r.logged, 0, Deref(h, __filter[b])))]
    /\ UNCHANGED <<__filter, sent>>

RECURSIVE factory_loop(_, _, _, _)
\* the loop of __factory_and_or_nor: filter_.append({field: method_parser(...)})
factory_loop(conditions, i, appended, logged) ==
    IF i > Len(conditions) THEN Ret(appended, logged)
    ELSE LET c == conditions[i]
             r == method_parser(c.field, c.operator, c.value)
         IN IF r.exc # "none"
            THEN [exc |-> r.exc, val |-> appended, logged |-> logged + r.logged]
            ELSE factory_loop(conditions, i + 1,
                              Append(appended, PyDict(c.field :> r.val)), logged + r.logged)

\* Query.__factory_and_or_nor: filter_ is the list the accumulator holds under
\* the key, appended to in place, or a new list bound to the key at the end
factory_and_or_nor(h, a, conditions, binary_operator) ==
    LET key == "$" \o binary_operator
        r == factory_loop(conditions, 1, <<>>, 0)
        held == key \in DOMAIN h[a].d
        n == Alloc(h, PyList(r.val))
    IN [exc |-> r.exc, logged |-> r.logged,
        heap |-> IF held
                 THEN [h EXCEPT ![h[a].d[key].a] = PyList(@.l \o r.val)]
                 ELSE IF r.exc = "none"
                      THEN [n.heap EXCEPT ![a] = PyDict(update(h[a].d, key :> Ref(n.ref)))]
                      ELSE h]

\* the heap and the call record after a group call on builder b
Compose(b, op, conditions, binary_operator) ==
    LET r == factory_and_or_nor(heap, __filter[b], conditions, binary_operator)
    IN [heap |-> r.heap,
        call |-> Call(op, conditions, PyNone, r.exc, r.logged, 0, Deref(r.heap, __filter[b]))]

\* Query.and_search
and_search(b, conditions) ==
    /\ TotalCalls < MaxCalls
    /\ LET r == Compose(b, "and_search", conditions, "and")
       IN /\ heap' = r.heap
          /\ hist' = [hist EXCEPT ![b] = Append(@, r.call)]
    /\ UNCHANGED <<__filter, sent>>

\* Query.or_search
or_search(b, conditions) ==
    /\ TotalCalls < MaxCalls
    /\ LET r == Compose(b, "or_search", conditions, "or")
       IN /\ heap' = r.heap
          /\ hist' = [hist EXCEPT ![b] = Append(@, r.call)]
    /\ UNCHANGED <<__filter, sent>>

\* Query.nor_search
nor_search(b, conditions) ==
    /\ TotalCalls < MaxCalls
    /\ LET r == Compose(b, "nor_search", conditions, "nor")
       IN /\ heap' = r.heap
          /\ hist' = [hist EXCEPT ![b] = Append(@, r.call)]
    /\ UNCHANGED <<__filter, sent>>

\* the heap, the submission and the call record after an execution call that
\* leaves self.__filter alone: the collection's method is handed
\* self._get_filter() and returns (ok) or raises
Execute(b, op, method, ok) ==
    LET c == _get_filter(heap, __filter[b])
    IN [heap |-> c.heap,
        submission |-> Submission(b, method, c),
        call |-> Call(op, <<>>, PyNone, IF ok THEN "none" ELSE "EngineError", 0, Len(sent) + 1,
                      Deref(c.heap, __filter[b]))]

\* Query.get_all
get_all(b, ok) ==
    /\ TotalCalls < MaxCalls
    /\ LET r == Execute(b, "get_all", "find", ok)
       IN /\ heap' = r.heap
          /\ sent' = Append(sent, r.submission)
          /\ hist' = [hist EXCEPT ![b] = Append(@, r.call)]
    /\ UNCHANGED __filter

\* Query.get_one_or_none
get_one_or_none(b, ok) ==
    /\ TotalCalls < MaxCalls
    /\ LET r == Execute(b, "get_one_or_none", "find_one", ok)
       IN /\ heap' = r.heap
          /\ sent' = Append(sent, r.submission)
          /\ hist' = [hist EXCEPT ![b] = Append(@, r.call)]
    /\ UNCHANGED __filter

\* Query.count
count(b, ok) ==
    /\ TotalCalls < MaxCalls
    /\ LET r == Execute(b, "count", "count_documents", ok)
       IN /\ heap' = r.heap
          /\ sent' = Append(sent, r.submission)
          /\ hist' = [hist EXCEPT ![b] = Append(@, r.call)]
    /\ UNCHANGED __filter

\* Query.distinct
distinct(b, ok) ==
    /\ TotalCalls < MaxCalls
    /\ LET r == Execute(b, "distinct", "distinct", ok)
       IN /\ heap' = r.heap
          /\ sent' = Append(sent, r.submission)
          /\ hist' = [hist EXCEPT ![b] = Append(@, r.call)]
    /\ UNCHANGED __filter

\* get_by_id without its last assignment
filter_never_reset(h, f, ok) == [heap |-> h, ref |-> f]

\* get_by_id with its last assignment in a finally clause
filter_always_reset(h, f, ok) == Alloc(h, PyDict(EmptyMap))

\* self.__filter once the lookup of get_by_id is over: a new {} when
\* get_one_or_none returned; the dict at f still when it raised, the
\* assignment after it being skipped
filter_after_lookup(h, f, ok) == IF ok THEN Alloc(h, PyDict(EmptyMap)) ELSE [heap |-> h, ref |-> f]

\* Query.get_by_id: self.__filter = {"_id": _id}; get_one_or_none();
\* self.__filter = {}
get_by_id(b, _id, ok) ==
    /\ TotalCalls < MaxCalls
    /\ LET f == Alloc(heap, PyDict("_id" :> _id))
           c == _get_filter(f.heap, f.ref)
           e == filter_after_lookup(c.heap, f.ref, ok)
       IN /\ heap' = e.heap
          /\ __filter' = [__filter EXCEPT ![b] = e.ref]
          /\ sent' = Append(sent, Submission(b, "find_one", c))
          /\ hist' = [hist EXCEPT ![b] =
                        Append(@, Call("get_by_id", <<>>, _id, IF ok THEN "none" ELSE "EngineError",
                                       0, Len(sent) + 1, Deref(e.heap, e.ref)))]

\* the collection changes the filter document it was handed: a key is set in
\* the dict and in every dict it holds, an element appended to every list
Touched(obj) ==
    IF obj.t = "dict" THEN PyDict(update(obj.d, "$engine" :> PyInt(0)))
    ELSE PyList(Append(obj.l, PyInt(0)))

EngineMutates(i) ==
    /\ ~sent[i].mutated
    /\ Cardinality({j \in 1..Len(sent) : sent[j].mutated}) < MaxMutations
    /\ heap' = [a \in DOMAIN heap |-> IF a \in Reach(heap, sent[i].ref) THEN Touched(heap[a]) ELSE heap[a]]
    /\ sent' = [sent EXCEPT ![i].mutated = TRUE]
    /\ UNCHANGED <<__filter, hist>>

(***************************************************************************)
(* The inputs                                                              *)
(***************************************************************************)
Ids == {PyStr("abc")}

MinMax(a, b) == PyDict(("min" :> PyInt(a)) @@ ("max" :> PyInt(b)))

\* the condition lists of the search and and_search calls of Spec
CondLists ==
    { <<Cond("x", ">=", PyInt(1))>>,
      <<Cond("x", "<=", PyInt(10))>>,
      <<Cond("y", "==", PyInt(1)), Cond("z", "in_range", PyInt(5))>> }

\* the condition lists of the or_search and nor_search calls
GroupLists == { <<Cond("x", ">=", PyInt(1))>> }

\* the condition lists of the search and and_search calls of Spec2
CondLists2 ==
    { <<Cond("x", ">=", PyInt(1))>>,
      <<Cond("y", "==", PyInt(1)), Cond("z", "in_range", PyInt(5))>> }

Operators == conditions_available \cup {"~~"}

\* the values each operator is tried with in SpecT
ValuesFor(o) ==
    CASE o \in {">=", "<="} -> {PyInt(1), PyInt(10)}
      [] o = "in" -> {PyList(<<PyInt(1), PyInt(10)>>)}
      [] o = "in_range" -> {MinMax(1, 10), MinMax(10, 1), PyInt(5), PyNone, PyStr("a")}
      [] o \in {"like", "ilike", "as_type"} -> {PyStr("a")}
      [] o = "has_field" -> {PyBool(TRUE), PyInt(1), PyNone, MinMax(1, 10)}
      [] o = "array_contains" ->
            {PyList(<<Cond("a", ">=", PyInt(1)), Cond("a", "<=", PyInt(10))>>),
             PyList(<<Cond("a", "==", PyInt(1)), Cond("a", ">", PyInt(1))>>),
             PyList(<<Cond("a", "~~", PyInt(1))>>),
             PyInt(1)}
      [] OTHER -> {PyInt(1)}

\* the conditions of SpecT: every operator on field x, a few on field y
Conds ==
    UNION {{Cond("x", o, v) : v \in ValuesFor(o)} : o \in Operators}
    \cup {Cond("y", "==", PyInt(1)), Cond("y", ">=", PyInt(1)), Cond("y", "~~", PyInt(1)),
          Cond("y", "has_field", PyInt(1))}

\* the condition lists of SpecT
WideLists == UNION {[1..n -> Conds] : n \in 0..MaxLen}

\* calls on one builder
Next ==
    \/ \E c \in CondLists : search(1, c)
    \/ \E c \in CondLists : and_search(1, c)
    \/ \E c \in GroupLists : or_search(1, c)
    \/ \E c \in GroupLists : nor_search(1, c)
    \/ \E i \in Ids, ok \in BOOLEAN : get_by_id(1, i, ok)
    \/ \E ok \in BOOLEAN : get_all(1, ok)
    \/ \E ok \in BOOLEAN : get_one_or_none(1, ok)
    \/ \E ok \in BOOLEAN : count(1, ok)
    \/ \E ok \in BOOLEAN : distinct(1, ok)
    \/ \E i \in 1..Len(sent) : EngineMutates(i)

Spec == Init /\ [][Next]_vars

\* calls on two builders, one after the other in any order
Next2 ==
    \/ \E b \in Builders, c \in CondLists2 : search(b, c)
    \/ \E b \in Builders, c \in CondLists2 : and_search(b, c)
    \/ \E b \in Builders, c \in GroupLists : or_search(b, c)
    \/ \E b \in Builders, c \in GroupLists : nor_search(b, c)
    \/ \E b \in Builders, i \in Ids, ok \in BOOLEAN : get_by_id(b, i, ok)
    \/ \E b \in Builders : get_all(b, TRUE)
    \/ \E b \in Builders : get_one_or_none(b, TRUE)
    \/ \E b \in Builders : count(b, TRUE)
    \/ \E b \in Builders : distinct(b, TRUE)

Spec2 == Init /\ [][Next2]_vars

\* one composition call on a new builder
NextT ==
    \/ hist[1] = <<>> /\ \E c \in WideLists : search(1, c)
    \/ hist[1] = <<>> /\ \E c \in WideLists : and_search(1, c)
    \/ hist[1] = <<>> /\ \E c \in WideLists : or_search(1, c)
    \/ hist[1] = <<>> /\ \E c \in WideLists : nor_search(1, c)

SpecT == Init /\ [][NextT]_vars

(***************************************************************************)
(* What the claims are stated with                                         *)
(***************************************************************************)
CompositionOps == {"search", "and_search", "or_search", "nor_search"}

GroupOps == {"and_search", "or_search", "nor_search"}

ExecutionOps == {"get_all", "get_one_or_none", "count", "distinct"}

GroupKey(op) == CASE op = "and_search" -> "$and" [] op = "or_search" -> "$or" [] op = "nor_search" -> "$nor"

EmptyDoc == PyDict(EmptyMap)

IdDoc(id) == PyDict("_id" :> id)

\* the accumulator of builder b, by value
Acc(b) == Deref(heap, __filter[b])

Last(b) == hist[b][Len(hist[b])]

\* the accumulator of builder b when its i-th call was made
Before(b, i) == IF i = 1 THEN EmptyDoc ELSE hist[b][i - 1].after

\* the calls made so far: <<b, i>> is the i-th call on builder b
Calls == UNION {{<<b, i>> : i \in 1..Len(hist[b])} : b \in Builders}

\* the filter document a submission holds once the collection has changed it
TouchedDoc(doc) ==
    PyDict(update([k \in DOMAIN doc.d |-> IF IsObject(doc.d[k]) THEN Touched(doc.d[k]) ELSE doc.d[k]],
                  "$engine" :> PyInt(0)))

(***************************************************************************)
(* C4.  As claimed: a search call whose condition names a field for which  *)
(* the accumulator holds a fragment from an earlier search call merges its *)
(* fragment key-wise into that fragment.                                   *)
(***************************************************************************)
C4_SearchMergesAcrossCalls ==
    \A bi \in Calls :
        LET c == hist[bi[1]][bi[2]]
            before == Before(bi[1], bi[2])
            r == parse_filters(c.conds)
        IN (c.op = "search" /\ c.exc = "none") =>
             \A f \in DOMAIN r.val.d :
                (f \in DOMAIN before.d /\ before.d[f].t = "dict" /\ r.val.d[f].t = "dict")
                   => c.after.d[f] = PyDict(update(before.d[f].d, r.val.d[f].d))

(***************************************************************************)
(* C4, amended.  A search call that returns binds every field its          *)
(* conditions name to the fragment parse_filters builds from the           *)
(* conditions of that call alone, whatever the accumulator held for the    *)
(* field, and leaves the other keys of the accumulator as they were; a     *)
(* search call that raises leaves the accumulator as it was.               *)
(***************************************************************************)
C4_SearchReplacesPerField ==
    \A bi \in Calls :
        LET c == hist[bi[1]][bi[2]]
            before == Before(bi[1], bi[2])
            r == parse_filters(c.conds)
        IN c.op = "search" =>
             /\ c.exc = r.exc
             /\ r.exc # "none" => c.after = before
             /\ r.exc = "none" =>
                  /\ DOMAIN c.after.d = DOMAIN before.d \cup DOMAIN r.val.d
                  /\ \A f \in DOMAIN r.val.d : c.after.d[f] = r.val.d[f]
                  /\ \A k \in DOMAIN before.d \ DOMAIN r.val.d : c.after.d[k] = before.d[k]

\* search([(x, >=, 1)]) then search([(x, <=, 10)]): x bears the upper bound alone
C4_Witness ==
    /\ Len(hist[1]) = 2
    /\ hist[1][1].op = "search" /\ hist[1][1].conds = <<Cond("x", ">=", PyInt(1))>>
    /\ hist[1][2].op = "search" /\ hist[1][2].conds = <<Cond("x", "<=", PyInt(10))>>
    /\ Acc(1) = PyDict("x" :> PyDict("$lte" :> PyInt(10)))

(***************************************************************************)
(* C6.  After get_by_id has returned the accumulator is empty, whatever    *)
(* was composed before, and a get_all that follows submits the empty       *)
(* filter; get_all, get_one_or_none, count and distinct leave the          *)
(* accumulator as it was and submit it whole, so the execution that        *)
(* follows them submits the same filter.                                   *)
(***************************************************************************)
C6_AccumulatorLifecycle ==
    /\ \A bi \in Calls :
        LET b == bi[1]
            i == bi[2]
            c == hist[b][i]
        IN /\ (c.op = "get_by_id" /\ c.exc = "none") =>
                /\ c.after = EmptyDoc
                /\ (i < Len(hist[b]) /\ hist[b][i + 1].op = "get_all")
                      => sent[hist[b][i + 1].n].doc = EmptyDoc
           /\ c.op \in ExecutionOps =>
                /\ c.after = Before(b, i)
                /\ sent[c.n].doc = Before(b, i)
    /\ \A b \in Builders : hist[b] # <<>> => Acc(b) = Last(b).after

\* a filter is composed, get_by_id returns, get_all submits {}
C6_Witness ==
    /\ Len(hist[1]) = 3
    /\ hist[1][1].op = "search" /\ hist[1][1].after # EmptyDoc
    /\ hist[1][2].op = "get_by_id" /\ hist[1][2].exc = "none"
    /\ hist[1][3].op = "get_all" /\ sent[hist[1][3].n].doc = EmptyDoc

(***************************************************************************)
(* C7.  The filter document an execution call hands to the collection has  *)
(* the value the accumulator had at the submission and shares no object    *)
(* with an accumulator; no later composition call changes it, and the      *)
(* collection changing it changes no accumulator.                          *)
(***************************************************************************)
C7_SnapshotIsolation ==
    /\ \A i \in 1..Len(sent) :
          /\ Deref(heap, sent[i].ref) = IF sent[i].mutated THEN TouchedDoc(sent[i].doc) ELSE sent[i].doc
          /\ \A b \in Builders : Reach(heap, sent[i].ref) \cap Reach(heap, __filter[b]) = {}
    /\ \A bi \in Calls :
          LET c == hist[bi[1]][bi[2]]
          IN c.n # 0 => sent[c.n].doc = IF c.op = "get_by_id" THEN IdDoc(c.id) ELSE Before(bi[1], bi[2])
    /\ \A b \in Builders : hist[b] # <<>> => Acc(b) = Last(b).after

\* and_search, get_all, and_search: the document submitted holds the first
\* condition alone, the collection has changed it, the accumulator holds both
C7_Witness ==
    /\ Len(hist[1]) = 3
    /\ hist[1][1].op = "and_search" /\ hist[1][1].exc = "none"
    /\ hist[1][2].op = "get_all"
    /\ hist[1][3].op = "and_search" /\ hist[1][3].exc = "none"
    /\ sent[1].mutated
    /\ Len(sent[1].doc.d["$and"].l) = 1
    /\ Len(Acc(1).d["$and"].l) = 2

(***************************************************************************)
(* C10.  When the lookup of get_by_id(id) raises, the error reaches the    *)
(* caller after the one submission, and the accumulator holds {"_id": id}: *)
(* neither empty nor what was composed before; the get_all, count or       *)
(* distinct that follows submits {"_id": id}.                              *)
(***************************************************************************)
C10_FailedGetByIdKeepsIdFilter ==
    /\ \A bi \in Calls :
        LET b == bi[1]
            i == bi[2]
            c == hist[b][i]
        IN (c.op = "get_by_id" /\ c.exc # "none") =>
             /\ c.exc = "EngineError"
             /\ c.after = IdDoc(c.id)
             /\ sent[c.n].doc = IdDoc(c.id)
             /\ i = Len(hist[b]) => Acc(b) = IdDoc(c.id)
             /\ (i < Len(hist[b]) /\ hist[b][i + 1].op \in ExecutionOps)
                   => sent[hist[b][i + 1].n].doc = IdDoc(c.id)
    /\ Len(sent) = Cardinality({bi \in Calls : hist[bi[1]][bi[2]].n # 0})

\* a filter is composed, get_by_id raises, get_all submits the id filter
C10_Witness ==
    /\ Len(hist[1]) = 3
    /\ hist[1][1].op = "search" /\ hist[1][1].exc = "none"
    /\ hist[1][2].op = "get_by_id" /\ hist[1][2].exc = "EngineError"
    /\ hist[1][3].op = "get_all" /\ sent[hist[1][3].n].doc = IdDoc(PyStr("abc"))

(***************************************************************************)
(* C8.  Every Query owns its accumulator, empty until the first call on    *)
(* it: a call on one builder changes neither the accumulator of the other  *)
(* builder nor a filter document the other builder submitted, and the      *)
(* document a call submits is made of the accumulator of its own builder.  *)
(***************************************************************************)
C8_BuilderIndependence ==
    [][\A b \in Builders :
         /\ hist[b] = <<>> => Acc(b) = EmptyDoc
         /\ hist'[b] = hist[b] =>
              /\ __filter'[b] = __filter[b]
              /\ Deref(heap', __filter'[b]) = Acc(b)
              /\ \A i \in 1..Len(sent) :
                    sent[i].b = b => /\ sent'[i] = sent[i]
                                     /\ Deref(heap', sent'[i].ref) = Deref(heap, sent[i].ref)
         /\ (hist'[b] # hist[b] /\ Len(sent') > Len(sent)) =>
              /\ sent'[Len(sent')].b = b
              /\ sent'[Len(sent')].doc = IF Last(b)'.op = "get_by_id" THEN IdDoc(Last(b)'.id) ELSE Acc(b)
    ]_vars

\* builder 1 has composed with search and executed, builder 2 has composed
\* with and_search: each accumulator holds what was composed on it
C8_Witness ==
    /\ Len(hist[1]) = 2 /\ Len(hist[2]) = 1
    /\ hist[1][1].op = "search" /\ hist[1][1].exc = "none"
    /\ hist[1][2].op = "get_all"
    /\ hist[2][1].op = "and_search" /\ hist[2][1].exc = "none"
    /\ sent[1].doc = Acc(1)
    /\ DOMAIN Acc(1).d = {"x"}
    /\ DOMAIN Acc(2).d = {"$and"}

(***************************************************************************)
(* The composition call made on a new builder                              *)
(***************************************************************************)
\* the positions of the conditions of cs on field f
On(cs, f) == {j \in 1..Len(cs) : cs[j].field = f}

\* the fragments the group call c appended: the list under its key
Appended(c) == IF GroupKey(c.op) \in DOMAIN c.after.d THEN c.after.d[GroupKey(c.op)].l ELSE <<>>

\* the filter after the first call c on a builder holds no clause that
\* condition j of c made: its field is no key, or the key holds the fragment
\* of another condition of c on the field
NoClauseOf(c, j) ==
    LET f == c.conds[j].field
    IN IF c.op = "search"
       THEN \/ f \notin DOMAIN c.after.d
            \/ On(c.conds, f) # {j} /\ c.after.d[f] # PyNone
       ELSE \A k \in 1..Len(Appended(c)) :
               \/ f \notin DOMAIN Appended(c)[k].d
               \/ On(c.conds, f) # {j} /\ Appended(c)[k].d[f] # PyNone

\* a first call on a builder that is a composition call
FirstCompositions == {bi \in Calls : bi[2] = 1 /\ hist[bi[1]][1].op \in CompositionOps}

(***************************************************************************)
(* C1.  As claimed: a composition call with a condition whose operator is  *)
(* not recognized raises nothing, logs an error, and the filter holds no   *)
(* clause for the field of that condition, also when another condition of  *)
(* the call names the field.                                               *)
(***************************************************************************)
C1_UnknownOperatorOmitted ==
    \A bi \in FirstCompositions :
        LET c == hist[bi[1]][1]
        IN \A j \in 1..Len(c.conds) :
              c.conds[j].operator \notin conditions_available =>
                 /\ c.exc = "none"
                 /\ c.logged >= 1
                 /\ NoClauseOf(c, j)

\* in_range with a value that is no dict, has_field with one that is no bool
Mismatched(cond) ==
    \/ cond.operator = "in_range" /\ cond.value.t # "dict"
    \/ cond.operator = "has_field" /\ cond.value.t # "bool"

(***************************************************************************)
(* C2.  As claimed: a composition call with an in_range condition whose    *)
(* value is no mapping, or a has_field condition whose value is no         *)
(* boolean, logs an error, raises nothing, and the filter omits the        *)
(* fragment of that condition.                                             *)
(***************************************************************************)
C2_TypeMismatchOmitted ==
    \A bi \in FirstCompositions :
        LET c == hist[bi[1]][1]
        IN \A j \in 1..Len(c.conds) :
              Mismatched(c.conds[j]) =>
                 /\ c.exc = "none"
                 /\ c.logged >= 1
                 /\ NoClauseOf(c, j)

\* a condition whose operator is recognized and whose value has the type
\* the operator takes, the conditions of an array_contains list included
RECURSIVE WellFormed(_)
WellFormed(cond) ==
    /\ cond.operator \in conditions_available
    /\ ~Mismatched(cond)
    /\ cond.operator = "in_range" => {"min", "max"} \subseteq DOMAIN cond.value.d
    /\ cond.operator = "array_contains" =>
          /\ IsCondList(cond.value)
          /\ \A j \in 1..Len(cond.value.l) : WellFormed(cond.value.l[j])

RECURSIVE MergedFrom(_, _, _)
\* the fragment of condition j of cs updated key-wise with the fragments of
\* the later conditions of cs on field f, in order
MergedFrom(cs, f, j) ==
    LET later == {k \in On(cs, f) : k > j}
        frag(k) == method_parser(f, cs[k].operator, cs[k].value).val
        k1 == CHOOSE k \in later : \A m \in later : k <= m
    IN IF later = {} THEN frag(j)
       ELSE PyDict(update(frag(j).d, MergedFrom(cs, f, k1).d))

\* the fragment of field f in a filter level built from cs
Merged(cs, f) == MergedFrom(cs, f, CHOOSE j \in On(cs, f) : \A m \in On(cs, f) : j <= m)

\* the level built from cs holds one key per field, bound to the merged fragment
LevelMerged(level, cs) ==
    /\ level.t = "dict"
    /\ DOMAIN level.d = {cs[j].field : j \in 1..Len(cs)}
    /\ \A f \in DOMAIN level.d : level.d[f] = Merged(cs, f)

(***************************************************************************)
(* C3.  As claimed: a search call whose conditions have recognized         *)
(* operators returns, and the filter level it builds has one key per       *)
(* field, bound to the fragment of the first condition on the field        *)
(* updated key-wise with the fragments of the later ones, whatever the     *)
(* operators, == first included; so does the level under $elemMatch that   *)
(* an array_contains condition builds from its list.                       *)
(***************************************************************************)
C3_FieldMergeRule ==
    \A bi \in FirstCompositions :
        LET c == hist[bi[1]][1]
            repeated == \E j, k \in 1..Len(c.conds) : j # k /\ c.conds[j].field = c.conds[k].field
            outer == \A j \in 1..Len(c.conds) :
                        WellFormed(c.conds[j]) /\ c.conds[j].operator # "array_contains"
            inner == /\ Len(c.conds) = 1
                     /\ c.conds[1].operator = "array_contains"
                     /\ IsCondList(c.conds[1].value)
                     /\ \A j \in 1..Len(c.conds[1].value.l) :
                           /\ WellFormed(c.conds[1].value.l[j])
                           /\ c.conds[1].value.l[j].operator # "array_contains"
        IN c.op = "search" =>
             /\ (outer /\ repeated) => (c.exc = "none" /\ LevelMerged(c.after, c.conds))
             /\ inner =>
                  /\ c.exc = "none"
                  /\ LevelMerged(c.after.d[c.conds[1].field].d["$elemMatch"], c.conds[1].value.l)

\* a single fragment for f that carries the lower bound a and the upper bound b
Bounded(f, a, b) == PyDict(f :> PyDict(("$gte" :> a) @@ ("$lte" :> b)))

(***************************************************************************)
(* C9.  On a new builder, search([(f, "in_range", {"min": a, "max": b})])  *)
(* and search([(f, ">=", a), (f, "<=", b)]) both return and build the same *)
(* filter: one fragment for f that carries the lower bound a and the upper *)
(* bound b.                                                                *)
(***************************************************************************)
C9_InRangeEquivalence ==
    \A bi \in FirstCompositions :
        LET c == hist[bi[1]][1]
            cs == c.conds
        IN c.op = "search" =>
             /\ (/\ Len(cs) = 1
                 /\ cs[1].operator = "in_range"
                 /\ cs[1].value.t = "dict"
                 /\ DOMAIN cs[1].value.d = {"min", "max"})
                => /\ c.exc = "none"
                   /\ Acc(bi[1]) = Bounded(cs[1].field, cs[1].value.d["min"], cs[1].value.d["max"])
             /\ (/\ Len(cs) = 2
                 /\ cs[1].field = cs[2].field
                 /\ cs[1].operator = ">="
                 /\ cs[2].operator = "<=")
                => /\ c.exc = "none"
                   /\ Acc(bi[1]) = Bounded(cs[1].field, cs[1].value, cs[2].value)

\* search([("x", "in_range", {"min": 1, "max": 10})]) has built x: >= 1, <= 10
C9_Witness ==
    /\ Len(hist[1]) = 1
    /\ hist[1][1].op = "search"
    /\ hist[1][1].conds = <<Cond("x", "in_range", MinMax(1, 10))>>
    /\ Acc(1) = Bounded("x", PyInt(1), PyInt(10))

RECURSIVE Passed(_, _, _)
\* the conditions the first i calls on builder b passed to the group
\* operation op, in call and argument order
Passed(b, op, i) ==
    IF i = 0 THEN <<>>
    ELSE Passed(b, op, i - 1) \o (IF hist[b][i].op = op THEN hist[b][i].conds ELSE <<>>)

\* the list the accumulator of builder b holds under key, <<>> when it holds none
Group(b, key) == IF key \in DOMAIN Acc(b).d THEN Acc(b).d[key].l ELSE <<>>

(***************************************************************************)
(* C5.  As claimed: while no get_by_id has been called on a builder, the   *)
(* list under each of $and, $or and $nor holds one single-field fragment   *)
(* per condition passed to the operation of that group, in call and        *)
(* argument order, so that its length is the number of conditions passed;  *)
(* and a group call leaves every other key of the accumulator as it was.   *)
(***************************************************************************)
C5_GroupAccumulation ==
    \A b \in Builders :
        (\A i \in 1..Len(hist[b]) : hist[b][i].op # "get_by_id") =>
            /\ \A op \in GroupOps :
                  LET passed == Passed(b, op, Len(hist[b]))
                      held == Group(b, GroupKey(op))
                  IN /\ Len(held) = Len(passed)
                     /\ \A k \in 1..Len(held) :
                           /\ held[k].t = "dict"
                           /\ DOMAIN held[k].d = {passed[k].field}
            /\ \A i \in 1..Len(hist[b]) :
                  hist[b][i].op \in GroupOps =>
                     \A k \in DOMAIN Before(b, i).d \ {GroupKey(hist[b][i].op)} :
                        /\ k \in DOMAIN hist[b][i].after.d
                        /\ hist[b][i].after.d[k] = Before(b, i).d[k]
====
